---- MODULE Spec2Model ----
(***************************************************************************)
(* Model of the authentication serializers                                 *)
(* (apps/users/serializers/auth_serializers.py) and of the response        *)
(* envelope helper (mixins/api_response_mixin.py).                         *)
(*                                                                         *)
(* Every operation handles one request: it is drawn from a bounded set of  *)
(* inputs, runs to completion and leaves its outcome in `result`.          *)
(* Strings are sequences of one-character strings.  A raw (JSON) value is  *)
(* a record [tag, v]: tag "str" with its characters, tag "int" with its    *)
(* decimal digits, tag "null" for JSON null / Python None, tag "absent"    *)
(* for a key that is not in the submitted mapping.                         *)
(***************************************************************************)
EXTENDS Integers, Sequences, FiniteSets, TLC

VARIABLES
    pc,      \* "idle" | "validated" (registration data awaiting save) | "done"
    op,      \* the operation that produced `result`
    input,   \* its arguments
    result,  \* its outcome: a returned value or a raised exception
    calls    \* keyword arguments of every User.objects.create_user call of this request

vars == <<pc, op, input, result, calls>>

----------------------------------------------------------------------------
(* Bounds of the input sets *)

MaxCore == 3        \* longest freely chosen prefix of a submitted string
MaxPad == 14        \* most padding letters after the prefix (lengths up to 17)
MaxShortCore == 1   \* prefix length of the strings submitted to the other schemas

(* Program constants *)

MIN_LENGTH == 8         \* CharField(min_length=8)
MAX_LENGTH == 128       \* CharField(max_length=128)
REGEX_MIN == 8          \* {8,16} of password_regex
REGEX_MAX == 16

----------------------------------------------------------------------------
(* Characters and strings *)

NL == "\n"
SP == " "
LowerCase == {"a", "b"}                 \* members of [a-z]
UpperCase == {"A"}                      \* members of [A-Z]
Digits == {"1"}                         \* members of \d
Symbols == {"!"}                        \* members of [@$!%*?&#^()\-_=+{};:,<.>]
Others == {"~"}                         \* printable, in none of the classes
Whitespace == {SP, NL}
Allowed == LowerCase \cup UpperCase \cup Digits \cup Symbols

Rep(c, n) == [i \in 1..n |-> c]

Str(s) == [tag |-> "str", v |-> s]
IntVal(s) == [tag |-> "int", v |-> s]
None == [tag |-> "null", v |-> <<>>]
Absent == [tag |-> "absent", v |-> <<>>]

(* str.strip(): whitespace removed at both ends *)
RECURSIVE LStrip(_)
LStrip(s) == IF s # <<>> /\ Head(s) \in Whitespace THEN LStrip(Tail(s)) ELSE s

RECURSIVE RStrip(_)
RStrip(s) ==
    IF s # <<>> /\ s[Len(s)] \in Whitespace
    THEN RStrip(SubSeq(s, 1, Len(s) - 1))
    ELSE s

Strip(s) == RStrip(LStrip(s))

----------------------------------------------------------------------------
(* Outcomes *)

Return(x) == [kind |-> "return", value |-> x, msg |-> <<>>]
Raise(exc, m) == [kind |-> exc, value |-> None, msg |-> m]

InvalidPassword == <<"Password must be at least 8 characters long and contain at least one uppercase letter, one lowercase letter, one digit, and one special character">>
PasswordMismatch == <<"Passwords do not match">>

----------------------------------------------------------------------------
(* serializers.CharField as declared on the serializers: run_validation of *)
(* one submitted value.  A missing key is `required`, None is `null`, a    *)
(* string that is empty after strip() is `blank`; a str or int is turned   *)
(* into str(data).strip(); then max_length and min_length are validated on *)
(* the cleaned value.  minLen = 0 and maxLen = 0 stand for "not declared". *)

CharField(raw, minLen, maxLen) ==
    IF raw.tag = "absent" THEN Raise("ValidationError", <<"required">>)
    ELSE IF raw.tag = "null" THEN Raise("ValidationError", <<"null">>)
    ELSE LET value == Strip(raw.v) IN
         IF value = <<>> THEN Raise("ValidationError", <<"blank">>)
         ELSE LET tooLong == IF maxLen > 0 /\ Len(value) > maxLen
                             THEN <<"max_length">> ELSE <<>>
                  tooShort == IF minLen > 0 /\ Len(value) < minLen
                              THEN <<"min_length">> ELSE <<>>
              IN IF tooLong \o tooShort # <<>>
                 THEN Raise("ValidationError", tooLong \o tooShort)
                 ELSE Return(value)

(* self.get_initial().get(name): the submitted value as it came in, None   *)
(* when the key is missing *)
get_initial(data, name) == IF data[name].tag = "absent" THEN None ELSE data[name]

----------------------------------------------------------------------------
(* password_regex, as re.match evaluates it *)

(* (?=.*[class]) at position 0: `.` does not match a newline *)
Lookahead(s, class) ==
    \E i \in 1..Len(s) : s[i] \in class /\ \A j \in 1..(i - 1) : s[j] # NL

(* [A-Za-z\d@$!...]{8,16} *)
CharClassRun(s) ==
    Len(s) \in REGEX_MIN..REGEX_MAX /\ \A i \in 1..Len(s) : s[i] \in Allowed

(* `$` matches at the end of the string and just before a final newline *)
re_match(s) ==
    /\ Lookahead(s, LowerCase)
    /\ Lookahead(s, UpperCase)
    /\ Lookahead(s, Digits)
    /\ Lookahead(s, Symbols)
    /\ \/ CharClassRun(s)
       \/ /\ s # <<>>
          /\ s[Len(s)] = NL
          /\ CharClassRun(SubSeq(s, 1, Len(s) - 1))

----------------------------------------------------------------------------
(* UserRegistrationSerializer *)

(* variant: the equality check placed before the composed check *)
validate_password_confirmation_EqualityFirst(data, value) ==
    LET password == get_initial(data, "password") IN
    IF password # Str(value) THEN Raise("ValidationError", PasswordMismatch)
    ELSE IF password.tag # "str" THEN Raise("TypeError", <<"expected string or bytes-like object">>)
    ELSE IF ~ re_match(password.v) THEN Raise("ValidationError", InvalidPassword)
    ELSE Return(value)

UserRegistrationSerializer_validate_password_confirmation(data, value) ==
    LET password == get_initial(data, "password") IN
    IF password.tag # "str" THEN Raise("TypeError", <<"expected string or bytes-like object">>)
    ELSE IF ~ re_match(password.v) THEN Raise("ValidationError", InvalidPassword)
    ELSE IF password # Str(value) THEN Raise("ValidationError", PasswordMismatch)
    ELSE Return(value)


(* The four model-derived fields of Meta.fields are carried through as    *)
(* opaque tokens; password and password_confirmation are the declared      *)
(* CharFields.  to_internal_value visits the fields in Meta.fields order,  *)
(* runs the field and then validate_<field>, and collects each field's     *)
(* ValidationError; any other exception leaves the serializer at once.     *)
ModelFields == {"first_name", "last_name", "email", "username"}

UserRegistrationSerializer_is_valid(data) ==
    LET password == CharField(data["password"], MIN_LENGTH, MAX_LENGTH)
        field == CharField(data["password_confirmation"], MIN_LENGTH, MAX_LENGTH)
        confirmation ==
            IF field.kind = "return"
            THEN UserRegistrationSerializer_validate_password_confirmation(data, field.value)
            ELSE field
    IN  IF confirmation.kind \notin {"return", "ValidationError"} THEN confirmation
        ELSE IF password.kind = "return" /\ confirmation.kind = "return"
        THEN Return([f \in DOMAIN data |->
                        IF f = "password" THEN password.value
                        ELSE IF f = "password_confirmation" THEN confirmation.value
                        ELSE data[f]])
        ELSE Raise("ValidationError",
                   [password |-> password.msg,
                    password_confirmation |-> confirmation.msg])

(* variant: the confirmation is not popped *)
create_kwargs_NoPop(validated_data) == validated_data

(* validated_data.pop('password_confirmation'): the keyword arguments that *)
(* are left for User.objects.create_user                                  *)
UserRegistrationSerializer_create_kwargs(validated_data) ==
    [f \in DOMAIN validated_data \ {"password_confirmation"} |-> validated_data[f]]

----------------------------------------------------------------------------
(* PasswordResetConfirmationSerializer *)

PasswordResetConfirmationSerializer_validate_password_confirmation(data, value) ==
    LET password == get_initial(data, "password") IN
    IF password # Str(value) THEN Raise("ValidationError", PasswordMismatch)
    ELSE Return(value)

PasswordResetConfirmationSerializer_is_valid(data) ==
    LET otp == CharField(data["otp"], 0, 0)
        password == CharField(data["password"], MIN_LENGTH, MAX_LENGTH)
        field == CharField(data["password_confirmation"], 0, 0)
        confirmation ==
            IF field.kind = "return"
            THEN PasswordResetConfirmationSerializer_validate_password_confirmation(data, field.value)
            ELSE field
    IN  IF otp.kind = "return" /\ password.kind = "return" /\ confirmation.kind = "return"
        THEN Return([otp |-> otp.value, password |-> password.value,
                     password_confirmation |-> confirmation.value])
        ELSE Raise("ValidationError",
                   [otp |-> otp.msg, password |-> password.msg,
                    password_confirmation |-> confirmation.msg])

----------------------------------------------------------------------------
(* LoginSerializer, LoginResponseSerializer, PassWordResetRequestSerializer *)

LoginSerializer_is_valid(data) ==
    LET email_or_username == CharField(data["email_or_username"], 0, 0)
        password == CharField(data["password"], 0, 0)
    IN  IF email_or_username.kind = "return" /\ password.kind = "return"
        THEN Return([email_or_username |-> email_or_username.value,
                     password |-> password.value])
        ELSE Raise("ValidationError",
                   [email_or_username |-> email_or_username.msg,
                    password |-> password.msg])

(* obj.get('expires_in'): None when the key is missing *)
get_expires_in(obj) == IF obj["expires_in"].tag = "absent" THEN None ELSE obj["expires_in"]

LoginResponseSerializer_data(obj) ==
    Return([access_token |-> obj["access_token"],
            refresh_token |-> obj["refresh_token"],
            expires_in |-> get_expires_in(obj),
            user |-> obj["user"]])

(* EmailField: a CharField whose cleaned value must be user@domain, the   *)
(* split taken at the last "@": the user part a dot-atom, the domain       *)
(* dot-separated labels ending in a top-level label of two or more letters *)
Letters == LowerCase \cup UpperCase

DotAtom(s, minLast) ==
    /\ s # <<>>
    /\ \A i \in 1..Len(s) : s[i] \in Letters \cup {"."}
    /\ s[1] # "." /\ s[Len(s)] # "."
    /\ \A i \in 1..(Len(s) - 1) : ~ (s[i] = "." /\ s[i + 1] = ".")
    /\ \E k \in minLast..Len(s) : \A i \in (Len(s) - k + 1)..Len(s) : s[i] \in Letters

EmailValidator(value) ==
    \E at \in 1..Len(value) :
        /\ value[at] = "@"
        /\ \A j \in (at + 1)..Len(value) : value[j] # "@"
        /\ DotAtom(SubSeq(value, 1, at - 1), 1)
        /\ LET domain == SubSeq(value, at + 1, Len(value)) IN
           /\ DotAtom(domain, 2)
           /\ \E i \in 1..Len(domain) : domain[i] = "."

PassWordResetRequestSerializer_is_valid(data) ==
    LET email == CharField(data["email"], 0, 0) IN
    IF email.kind # "return" THEN Raise("ValidationError", [email |-> email.msg])
    ELSE IF ~ EmailValidator(email.value)
    THEN Raise("ValidationError", [email |-> <<"invalid">>])
    ELSE Return([email |-> email.value])

----------------------------------------------------------------------------
(* APIResponseMixin *)

HTTP_200_OK == 200
HTTP_400_BAD_REQUEST == 400

MaxItems == 25      \* most rows of a paginated collection
MaxPageSize == 10   \* largest page_size argument
MaxPage == 4        \* largest requested page number

List(s) == [tag |-> "list", v |-> s]

(* a keyword argument the caller passed, or the parameter's default *)
Arg(args, name, default) == IF name \in DOMAIN args THEN args[name] ELSE default

Response(data, status) == [data |-> data, status |-> status]

success(args) ==
    LET message == args["message"]
        data == Arg(args, "data", None)
        status_code == Arg(args, "status_code", HTTP_200_OK)
    IN  Return(Response([status |-> TRUE, message |-> message, data |-> data],
                        status_code))

(* variant: a single string is passed through unwrapped *)
error_NoWrap(args) ==
    Return(Response([status |-> FALSE, message |-> args["message"],
                     errors |-> Arg(args, "errors", None)],
                    Arg(args, "status_code", HTTP_400_BAD_REQUEST)))

error(args) ==
    LET message == args["message"]
        errors == Arg(args, "errors", None)
        status_code == Arg(args, "status_code", HTTP_400_BAD_REQUEST)
    IN  Return(Response([status |-> FALSE, message |-> message,
                         errors |-> IF errors.tag = "str" THEN List(<<errors>>) ELSE errors],
                        status_code))

(* queryset.order_by('created_at'): ascending creation time *)
order_by_created_at(rows) ==
    LET all == {rows[i] : i \in 1..Len(rows)} IN
    [k \in 1..Len(rows) |->
        CHOOSE r \in all : Cardinality({q \in all : q.created_at < r.created_at}) = k - 1]

(* variant: no page at all for an empty collection *)
num_pages_NoEmptyFirstPage(count, per_page) == (count + per_page - 1) \div per_page

(* django Paginator.num_pages with allow_empty_first_page and no orphans:  *)
(* ceil(max(1, count) / per_page)                                          *)
num_pages(count, per_page) ==
    LET hits == IF count > 1 THEN count ELSE 1 IN (hits + per_page - 1) \div per_page

(* variant: the slice starts one page late *)
page_rows_OffByOne(rows, number, per_page) ==
    SubSeq(rows, number * per_page + 1,
           IF (number + 1) * per_page >= Len(rows) THEN Len(rows) ELSE (number + 1) * per_page)

(* Paginator.page(number).object_list: rows[bottom:top] *)
page_rows(rows, number, per_page) ==
    LET bottom == (number - 1) * per_page
        top == IF bottom + per_page >= Len(rows) THEN Len(rows) ELSE bottom + per_page
    IN  SubSeq(rows, bottom + 1, top)

(* the serializer's representation of one row *)
to_representation(row) == [id |-> row.id]

(* get_next_link / get_previous_link: None at the boundary, else the      *)
(* request's URL with the page parameter replaced                         *)
Link(number) == [tag |-> "url", v |-> number]
get_next_link(number, pages) == IF number < pages THEN Link(number + 1) ELSE None
get_previous_link(number) == IF number > 1 THEN Link(number - 1) ELSE None

(* variant: one page past the last is let through *)
validate_number_PastLast(number, pages) == number >= 1 /\ number <= pages + 1

(* Paginator.validate_number, reached through paginate_queryset: a page   *)
(* below 1 or beyond the last one is an InvalidPage, raised as NotFound    *)
validate_number(number, pages) == number >= 1 /\ number <= pages

(* variant: the caller's status_code becomes the HTTP status *)
paginated_status_Echo(status_code) == status_code

(* the status of the Response that carries the paginated envelope *)
paginated_status(status_code) == HTTP_200_OK

paginated_response(request, queryset, args) ==
    LET message == Arg(args, "message", "Success")
        page_size == Arg(args, "page_size", 10)
        status_code == Arg(args, "status_code", HTTP_200_OK)
    IN
    IF queryset.tag = "null"
    THEN Raise("AttributeError", <<"'NoneType' object has no attribute 'ordered'">>)
    ELSE
    LET rows == IF queryset.ordered THEN queryset.v ELSE order_by_created_at(queryset.v)
        number == Arg(request, "page", 1)
    IN
    IF page_size = 0
    THEN Raise("AttributeError", <<"'PageNumberPagination' object has no attribute 'page'">>)
    ELSE
    LET count == Len(rows)
        pages == num_pages(count, page_size)
    IN
    IF ~ validate_number(number, pages) THEN Raise("NotFound", <<"Invalid page.">>)
    ELSE
    LET page == page_rows(rows, number, page_size)
        data == [i \in 1..Len(page) |-> to_representation(page[i])]
    IN  Return(Response(
            [status |-> TRUE,
             message |-> message,
             data |-> data,
             status_code |-> status_code,
             pagination |-> [next |-> get_next_link(number, pages),
                             previous |-> get_previous_link(number),
                             count |-> count,
                             current_page |-> number,
                             total_pages |-> pages]],
            paginated_status(status_code)))

----------------------------------------------------------------------------
(* Submitted inputs *)

MaxEmailLen == 5    \* longest submitted email

CoreAlphabet == {"b", "A", "1", "!", "~"}
Cores(n) == UNION {[1..k -> CoreAlphabet] : k \in 0..n}
PadLens == (0..MaxPad) \cup {MAX_LENGTH - MaxCore, MAX_LENGTH - MaxCore + 1}
Affixes == {<< <<>>, <<>> >>, << <<>>, <<SP>> >>, << <<>>, <<NL>> >>, << <<SP>>, <<>> >>}

(* strings of up to MaxCore free characters, padding letters, and          *)
(* optional surrounding whitespace                                         *)
Strings(n) ==
    {a[1] \o c \o Rep("a", k) \o a[2] : c \in Cores(n), k \in PadLens, a \in Affixes}

NonStrings == {Absent, None, IntVal(Rep("1", MIN_LENGTH))}

Passwords(n) == {Str(s) : s \in Strings(n)} \cup NonStrings

(* the confirmations submitted along with a password: the same value, the  *)
(* same text retyped with or without surrounding whitespace, a different   *)
(* text, another well-formed password, or none                              *)
Confirmations(password) ==
    {password, Absent, Str(<<"A", "1", "!">> \o Rep("a", MIN_LENGTH - 3)), Str(password.v)}
    \cup (IF password.tag = "str"
          THEN {Str(password.v \o <<SP>>), Str(Strip(password.v)),
                Str(<<"b">> \o password.v)}
          ELSE {})

RegistrationData(p, c) ==
    [first_name |-> "Ada", last_name |-> "Lovelace", email |-> "ada@example.org",
     username |-> "ada", password |-> p, password_confirmation |-> c]

Otps == {Str(<<"1", "1">>), Absent}

Emails ==
    {Str(e) : e \in UNION {[1..k -> {"a", "@", "."}] : k \in 1..MaxEmailLen}} \cup {Absent}

LoginInputs ==
    [email_or_username : {Str(<<"a">>), Str(<<SP>>), Absent},
     password : {Str(<<"a">>), Str(<<SP, "a">>), None, Absent}]

LoginResults ==
    [access_token : {"access"}, refresh_token : {"refresh"},
     expires_in : {IntVal(<<"1">>), None, Absent}, user : {"ada", "bob"}]

----------------------------------------------------------------------------
(* The serializers' operations *)

Init ==
    /\ pc = "idle"
    /\ op = "none"
    /\ input = None
    /\ result = None
    /\ calls = <<>>

(* UserRegistrationSerializer(data=...).is_valid() *)
Register ==
    /\ pc = "idle"
    /\ \E p \in Passwords(MaxCore) : \E c \in Confirmations(p) :
        LET data == RegistrationData(p, c)
            outcome == UserRegistrationSerializer_is_valid(data)
        IN  /\ op' = "register"
            /\ input' = data
            /\ result' = outcome
            /\ pc' = IF outcome.kind = "return" THEN "validated" ELSE "done"
    /\ UNCHANGED calls

(* UserRegistrationSerializer.create(validated_data), reached through      *)
(* save() once is_valid() has succeeded; create_user either returns the    *)
(* new user or raises, and what it raises is not caught                    *)
Create ==
    /\ pc = "validated"
    /\ op = "register"
    /\ LET kwargs == UserRegistrationSerializer_create_kwargs(result.value) IN
       /\ calls' = Append(calls, kwargs)
       /\ \E raised \in BOOLEAN :
            result' = IF raised
                      THEN Raise("IntegrityError", <<"create_user failed">>)
                      ELSE Return([user |-> kwargs])
    /\ op' = "create"
    /\ pc' = "done"
    /\ UNCHANGED input

Login ==
    /\ pc = "idle"
    /\ \E data \in LoginInputs :
        /\ input' = data
        /\ result' = LoginSerializer_is_valid(data)
    /\ op' = "login"
    /\ pc' = "done"
    /\ UNCHANGED calls

LoginResponse ==
    /\ pc = "idle"
    /\ \E obj \in LoginResults :
        /\ input' = obj
        /\ result' = LoginResponseSerializer_data(obj)
    /\ op' = "login_response"
    /\ pc' = "done"
    /\ UNCHANGED calls

PasswordResetRequest ==
    /\ pc = "idle"
    /\ \E email \in Emails :
        /\ input' = [email |-> email]
        /\ result' = PassWordResetRequestSerializer_is_valid([email |-> email])
    /\ op' = "password_reset_request"
    /\ pc' = "done"
    /\ UNCHANGED calls

PasswordResetConfirmation ==
    /\ pc = "idle"
    /\ \E otp \in Otps : \E p \in Passwords(MaxShortCore) : \E c \in Confirmations(p) :
        LET data == [otp |-> otp, password |-> p, password_confirmation |-> c] IN
        /\ input' = data
        /\ result' = PasswordResetConfirmationSerializer_is_valid(data)
    /\ op' = "password_reset_confirmation"
    /\ pc' = "done"
    /\ UNCHANGED calls

(* the request is over; the next one starts from nothing *)
Finish ==
    /\ pc \in {"validated", "done"}
    /\ pc' = "idle"
    /\ op' = "none"
    /\ input' = None
    /\ result' = None
    /\ calls' = <<>>

NextAuth ==
    \/ Register
    \/ Create
    \/ Login
    \/ LoginResponse
    \/ PasswordResetRequest
    \/ PasswordResetConfirmation
    \/ Finish

SpecAuth == Init /\ [][NextAuth]_vars

----------------------------------------------------------------------------
(* The response helper's operations *)

Messages == {"ok", "failed"}
StatusCodes == {200, 201, 400, 404}

(* every way of passing or omitting the optional keyword arguments *)
Optional(name, values) == {[k \in {name} |-> x] : x \in values} \cup {<<>>}
Merge(f, g) == [k \in DOMAIN f \cup DOMAIN g |-> IF k \in DOMAIN f THEN f[k] ELSE g[k]]
Calls(required, optional1, optional2) ==
    {Merge(r, Merge(a, b)) : r \in required, a \in optional1, b \in optional2}

Payloads == {None, Str(<<"a">>), List(<<Str(<<"a">>)>>)}
ErrorDetails ==
    {None, Str(<<"a">>), Str(<<>>), List(<<>>), List(<<Str(<<"a">>)>>),
     List(<<Str(<<"a">>), Str(<<"b">>)>>)}

Row(i) == [id |-> i, created_at |-> i]

(* a collection of n rows: ordered ones come in the order the caller chose *)
(* (here by id, ascending or descending); unordered ones come as the       *)
(* database returns them; None stands for a missing collection             *)
QuerySets ==
    {[tag |-> "queryset", ordered |-> o,
      v |-> [i \in 1..n |-> IF asc THEN Row(i) ELSE Row(n + 1 - i)]] :
        o \in BOOLEAN, asc \in BOOLEAN, n \in 0..MaxItems}
    \cup {None}

Requests == Optional("page", -1..MaxPage)

Success ==
    /\ pc = "idle"
    /\ \E args \in Calls([message : Messages], Optional("data", Payloads),
                         Optional("status_code", StatusCodes)) :
        /\ input' = args
        /\ result' = success(args)
    /\ op' = "success"
    /\ pc' = "done"
    /\ UNCHANGED calls

Error ==
    /\ pc = "idle"
    /\ \E args \in Calls([message : Messages], Optional("errors", ErrorDetails),
                         Optional("status_code", StatusCodes)) :
        /\ input' = args
        /\ result' = error(args)
    /\ op' = "error"
    /\ pc' = "done"
    /\ UNCHANGED calls

PaginatedResponse ==
    /\ pc = "idle"
    /\ \E request \in Requests : \E queryset \in QuerySets :
       \E args \in Calls(Optional("message", {"ok"}), Optional("page_size", 0..MaxPageSize),
                         Optional("status_code", {201, 404})) :
        /\ input' = [request |-> request, queryset |-> queryset, args |-> args]
        /\ result' = paginated_response(request, queryset, args)
    /\ op' = "paginated_response"
    /\ pc' = "done"
    /\ UNCHANGED calls

NextResponse ==
    \/ Success
    \/ Error
    \/ PaginatedResponse
    \/ Finish

SpecResponse == Init /\ [][NextResponse]_vars

----------------------------------------------------------------------------
(* Properties of the serializers (checked under SpecAuth) *)

(* the composed password rule as the specification words it *)
ComposedRule(s) ==
    /\ Len(s) >= 8 /\ Len(s) <= 16
    /\ \A i \in 1..Len(s) : s[i] \in Allowed
    /\ \E i \in 1..Len(s) : s[i] \in LowerCase
    /\ \E i \in 1..Len(s) : s[i] \in UpperCase
    /\ \E i \in 1..Len(s) : s[i] \in Digits
    /\ \E i \in 1..Len(s) : s[i] \in Symbols

(* the composed rule as the regular expression accepts it: one newline    *)
(* may follow the password                                                 *)
PassesRegex(s) ==
    \/ ComposedRule(s)
    \/ s # <<>> /\ s[Len(s)] = NL /\ ComposedRule(SubSeq(s, 1, Len(s) - 1))

(* the submitted confirmation passes its own field, so that                *)
(* validate_password_confirmation is called with its cleaned value         *)
Checked(c, lo, hi) ==
    /\ c.tag \in {"str", "int"}
    /\ Len(Strip(c.v)) >= lo
    /\ Len(Strip(c.v)) <= hi

(* a field without length bounds passes when it is present and not blank  *)
Present(c) == c.tag \in {"str", "int"} /\ Strip(c.v) # <<>>

Registered == op = "register"
RegPassword == input["password"]
RegValue == Strip(input["password_confirmation"].v)
RegChecked == Registered /\ Checked(input["password_confirmation"], 8, 128)
Reported ==
    IF result.kind = "ValidationError" THEN result.msg["password_confirmation"] ELSE <<>>

(* C1: registration accepts a (password, confirmation) pair iff the raw    *)
(* password satisfies the composed rule and equals the confirmation value; *)
(* in every other case it rejects and reports a rule that was violated.    *)
C1_AcceptsIffRuleAndEqual ==
    RegChecked =>
        LET rule == RegPassword.tag = "str" /\ ComposedRule(RegPassword.v)
            same == RegPassword = Str(RegValue)
        IN  /\ (result.kind = "return") <=> (rule /\ same)
            /\ ~ (rule /\ same) =>
                 /\ result.kind = "ValidationError"
                 /\ \/ ~ rule /\ Reported = InvalidPassword
                    \/ ~ same /\ Reported = PasswordMismatch

(* C2 as stated: whenever the password differs from the confirmation the   *)
(* reported failure is PasswordMismatch, whether or not the password also  *)
(* fails the composed rule.                                                *)
C2_MismatchReportedFirst ==
    (RegChecked /\ RegPassword.tag = "str" /\ RegPassword # Str(RegValue))
        => Reported = PasswordMismatch

(* C2 amended: the composed check is evaluated before the equality check.  *)
(* When the password differs from the confirmation value, PasswordMismatch *)
(* is reported only for a password that passes the composed check; one     *)
(* that fails it is reported as InvalidPassword, and a password that is    *)
(* not a string ends the validation with a TypeError.                      *)
C2_ComposedCheckFirst ==
    (RegChecked /\ RegPassword # Str(RegValue)) =>
        IF RegPassword.tag # "str" THEN result.kind = "TypeError"
        ELSE IF PassesRegex(RegPassword.v) THEN Reported = PasswordMismatch
        ELSE Reported = InvalidPassword

C2_Witness ==
    /\ RegChecked /\ RegPassword.tag = "str" /\ RegPassword # Str(RegValue)
    /\ Len(RegPassword.v) = 8 /\ ~ PassesRegex(RegPassword.v)
    /\ ComposedRule(RegValue)
    /\ Reported = InvalidPassword

(* C3: every validation schema ends either with a normalized mapping or    *)
(* with a ValidationError carrying per-field messages, whatever the input. *)
C3_OnlyValidationErrors ==
    op \in {"register", "login", "password_reset_request", "password_reset_confirmation"}
        => result.kind \in {"return", "ValidationError"}

(* C4: a password-reset confirmation whose fields individually satisfy     *)
(* their declared constraints is accepted iff the submitted password       *)
(* equals the submitted confirmation, and fails with PasswordMismatch      *)
(* otherwise.                                                              *)
C4_AcceptsIffEqual ==
    (/\ op = "password_reset_confirmation"
     /\ Present(input["otp"])
     /\ Checked(input["password"], 8, 128)
     /\ Present(input["password_confirmation"]))
        => IF input["password"] = input["password_confirmation"]
           THEN result.kind = "return"
           ELSE result.kind = "ValidationError" /\ Reported = PasswordMismatch

(* C10: on the registration success path create_user is called exactly     *)
(* once, with the normalized fields except password_confirmation; whether  *)
(* it returns or raises, nothing is retried; no other operation calls it.  *)
C10_CreateOnceWithoutConfirmation ==
    IF op = "create"
    THEN /\ Len(calls) = 1
         /\ DOMAIN calls[1] = {"first_name", "last_name", "email", "username", "password"}
         /\ calls[1]["password"] = Strip(input["password"].v)
         /\ \A f \in ModelFields : calls[1][f] = input[f]
         /\ result.kind \in {"return", "IntegrityError"}
         /\ pc = "done"
    ELSE calls = <<>>

C10_Witness ==
    /\ op = "create"
    /\ result.kind = "IntegrityError"
    /\ Len(calls) = 1
    /\ "password_confirmation" \in DOMAIN input
    /\ "password_confirmation" \notin DOMAIN calls[1]

----------------------------------------------------------------------------
(* Properties of the response helper (checked under SpecResponse) *)

Passed(name) == name \in DOMAIN input
Body == result.value.data
HttpStatus == result.value.status

(* C5: error(message, errors, status_code) returns {status: false,        *)
(* message, errors'} with HTTP status status_code (400 when omitted);      *)
(* errors' is [errors] for a single string, errors itself for a list, and  *)
(* null when errors is omitted.                                            *)
C5_ErrorEnvelope ==
    op = "error" =>
        /\ result.kind = "return"
        /\ DOMAIN Body = {"status", "message", "errors"}
        /\ Body.status = FALSE
        /\ Body.message = input.message
        /\ HttpStatus = (IF Passed("status_code") THEN input.status_code ELSE 400)
        /\ ~ Passed("errors") => Body.errors.tag = "null"
        /\ Passed("errors") /\ input.errors.tag = "str" =>
              /\ Body.errors.tag = "list"
              /\ Len(Body.errors.v) = 1
              /\ Body.errors.v[1] = input.errors
        /\ Passed("errors") /\ input.errors.tag # "str" => Body.errors = input.errors

C5_Witness ==
    /\ op = "error"
    /\ Passed("errors") /\ input.errors = Str(<<"a">>)
    /\ Body.errors = List(<<Str(<<"a">>)>>)
    /\ ~ Passed("status_code") /\ HttpStatus = 400

(* the paginated call's arguments and the collection as it is paged *)
Paginated == op = "paginated_response"
PageSize == IF "page_size" \in DOMAIN input.args THEN input.args["page_size"] ELSE 10
PageNumber == IF "page" \in DOMAIN input.request THEN input.request["page"] ELSE 1
HasCollection == input.queryset.tag = "queryset"
N == Len(input.queryset.v)
Ceiling(n, d) == CHOOSE q \in 0..n : q * d >= n /\ (q = 0 \/ (q - 1) * d < n)

(* the id of the k-th row once the collection has a definite order: the    *)
(* caller's order, or ascending creation time for an unordered collection  *)
OrderedId(k) == IF input.queryset.ordered THEN input.queryset.v[k].id ELSE k

PageItems(total) ==
    /\ Len(Body.data) = (IF PageNumber * PageSize <= N THEN PageSize
                         ELSE N - (PageNumber - 1) * PageSize)
    /\ Len(Body.data) <= PageSize
    /\ \A i \in 1..Len(Body.data) :
          Body.data[i] = [id |-> OrderedId((PageNumber - 1) * PageSize + i)]
    /\ Body.pagination.count = N
    /\ Body.pagination.current_page = PageNumber
    /\ Body.pagination.total_pages = total
    /\ (Body.pagination.previous.tag = "null") <=> (PageNumber = 1)
    /\ (Body.pagination.next.tag = "null") <=> (PageNumber = total)

(* C6 as stated: for N items, page_size S >= 1 and a valid page p the      *)
(* response holds the items of page p, count N, current_page p,            *)
(* total_pages = ceiling(N / S), previous null exactly on the first page   *)
(* and next null exactly on the last.                                      *)
C6_PageOfCeiling ==
    (Paginated /\ result.kind = "return") => PageItems(Ceiling(N, PageSize))

(* C6 amended: as stated, except that total_pages is ceiling(N / S) for    *)
(* N >= 1 and 1 for N = 0 (an empty collection has one, empty, page).      *)
C6_PageOfCeilingOrOne ==
    (Paginated /\ result.kind = "return") =>
        PageItems(IF N = 0 THEN 1 ELSE Ceiling(N, PageSize))

C6_Witness ==
    /\ Paginated /\ result.kind = "return"
    /\ N = 25 /\ PageSize = 10 /\ PageNumber = 2
    /\ ~ input.queryset.ordered /\ input.queryset.v[1].id = 25
    /\ Len(Body.data) = 10 /\ Body.data[1] = [id |-> 11]
    /\ Body.pagination.total_pages = 3
    /\ Body.pagination.previous.tag = "url"
    /\ Body.pagination.next.tag = "url"

EmptyPage ==
    /\ result.kind = "return"
    /\ Body.data = <<>>
    /\ Body.pagination.count = 0
    /\ Body.pagination.next.tag = "null"
    /\ Body.pagination.previous.tag = "null"

(* C7 as stated: over an empty or missing collection paginated_response    *)
(* does not fail and returns data [], count 0, total_pages 0, next and     *)
(* previous null.                                                          *)
C7_EmptyOrMissing ==
    (Paginated /\ PageSize >= 1 /\ PageNumber = 1 /\ (~ HasCollection \/ N = 0))
        => EmptyPage /\ Body.pagination.total_pages = 0

(* C7 amended: over an empty collection, with page_size >= 1 and the first *)
(* page requested, paginated_response does not fail and returns data [],   *)
(* count 0, total_pages 1, next and previous null; a missing (None)        *)
(* collection is not paged at all: the call raises AttributeError.         *)
C7_EmptyHasOnePage ==
    (Paginated /\ PageSize >= 1 /\ PageNumber = 1) =>
        /\ (HasCollection /\ N = 0) => (EmptyPage /\ Body.pagination.total_pages = 1)
        /\ ~ HasCollection => result.kind = "AttributeError"

C7_Witness ==
    /\ Paginated /\ HasCollection /\ N = 0 /\ PageSize = 3 /\ PageNumber = 1
    /\ EmptyPage
    /\ Body.pagination.total_pages = 1
    /\ Body.pagination.current_page = 1

C9_OutOfRangeNotFound ==
    (Paginated /\ HasCollection /\ PageSize >= 1) =>
        LET total == IF N = 0 THEN 1 ELSE Ceiling(N, PageSize) IN
        IF PageNumber < 1 \/ PageNumber > total
        THEN result.kind = "NotFound"
        ELSE result.kind = "return"

C9_Witness ==
    /\ Paginated /\ HasCollection /\ N = 25 /\ PageSize = 10 /\ PageNumber = 4
    /\ result.kind = "NotFound"

====
